---- MODULE Spec2Model ----
(***************************************************************************)
(* The API proxy server of the healthy eating app (server.py): one         *)
(* single-threaded HTTP server that validates a request, makes one call to *)
(* the upstream inference endpoint and relays the JSON verdict.            *)
(*                                                                         *)
(* Python values are records of one shape (k is the Python type name).  A  *)
(* str is a sequence of text fragments: a fragment is one whitespace       *)
(* character or a run of other characters, and Flat gives the text.  Bytes *)
(* on the wire are a text plus whether they decode as UTF-8.               *)
(***************************************************************************)
EXTENDS Integers, Sequences, FiniteSets, TLC

VARIABLES pc, req, events, written, payload, reply

vars == <<pc, req, events, written, payload, reply>>

(* Longest food string, in fragments, that a client sends. *)
MaxFoodLen == 3

(***************************************************************************)
(* Python values                                                           *)
(***************************************************************************)
NoItems == <<>>

PNone == [k |-> "NoneType", n |-> 0, s |-> <<>>, a |-> <<>>, o |-> NoItems]

PBool(b) == [k |-> "bool", n |-> IF b THEN 1 ELSE 0, s |-> <<>>, a |-> <<>>, o |-> NoItems]

PInt(i) == [k |-> "int", n |-> i, s |-> <<>>, a |-> <<>>, o |-> NoItems]

PStr(f) == [k |-> "str", n |-> 0, s |-> f, a |-> <<>>, o |-> NoItems]

PList(l) == [k |-> "list", n |-> 0, s |-> <<>>, a |-> l, o |-> NoItems]

PDict(d) == [k |-> "dict", n |-> 0, s |-> <<>>, a |-> <<>>, o |-> d]

(* The outcome of an expression: a value, or a raised exception. *)
Ok(v) == [ok |-> TRUE, val |-> v, exc |-> "", msg |-> ""]

Raise(e, m) == [ok |-> FALSE, val |-> PNone, exc |-> e, msg |-> m]

(* F(e), with e evaluated once: a local variable holding the value of e. *)
Bind(e, F(_)) == CHOOSE r \in {F(x) : x \in {e}} : TRUE

RECURSIVE Flat(_)
Flat(f) == IF f = <<>> THEN "" ELSE Head(f) \o Flat(Tail(f))

Whitespace == {" ", "\t", "\n", "\r", "\f"}

(* bool(v): the empty and zero values are false. *)
Truthy(v) ==
    CASE v.k = "NoneType" -> FALSE
      [] v.k \in {"bool", "int"} -> v.n # 0
      [] v.k = "str" -> v.s # <<>>
      [] v.k = "list" -> v.a # <<>>
      [] v.k = "dict" -> DOMAIN v.o # {}

(* The order in which a JSON text writes the keys of an object. *)
KeyOrder == <<"content", "text", "error", "message", "food", "rating",
              "image", "media_type">>

KeysOf(d) == SelectSeq(KeyOrder, LAMBDA key : key \in DOMAIN d)

RECURSIVE PyRepr(_), ReprItems(_), ReprPairs(_, _)
PyRepr(v) ==
    CASE v.k = "NoneType" -> "None"
      [] v.k = "bool" -> IF v.n = 1 THEN "True" ELSE "False"
      [] v.k = "int" -> ToString(v.n)
      [] v.k = "str" -> "'" \o Flat(v.s) \o "'"
      [] v.k = "list" -> "[" \o ReprItems(v.a) \o "]"
      [] v.k = "dict" -> "{" \o ReprPairs(v.o, KeysOf(v.o)) \o "}"
ReprItems(l) ==
    IF l = <<>> THEN ""
    ELSE PyRepr(Head(l)) \o (IF Len(l) > 1 THEN ", " ELSE "") \o ReprItems(Tail(l))
ReprPairs(d, ks) ==
    IF ks = <<>> THEN ""
    ELSE "'" \o Head(ks) \o "': " \o PyRepr(d[Head(ks)])
         \o (IF Len(ks) > 1 THEN ", " ELSE "") \o ReprPairs(d, Tail(ks))

(* str(v), as an f-string and Exception.__str__ format a value. *)
PyStr(v) == IF v.k = "str" THEN Flat(v.s) ELSE PyRepr(v)

(* v.get(key, default) *)
DictGet(v, key, default) ==
    IF v.k = "dict"
    THEN Ok(IF key \in DOMAIN v.o THEN v.o[key] ELSE default)
    ELSE Raise("AttributeError", "'" \o v.k \o "' object has no attribute 'get'")

(* v[0].  The first item of a str is its first character, here its first *)
(* fragment: callers only look at the type of the item.                  *)
Index0(v) ==
    CASE v.k = "list" ->
           IF v.a = <<>> THEN Raise("IndexError", "list index out of range")
           ELSE Ok(v.a[1])
      [] v.k = "str" ->
           IF v.s = <<>> THEN Raise("IndexError", "string index out of range")
           ELSE Ok(PStr(<<Head(v.s)>>))
      [] v.k = "dict" -> Raise("KeyError", "0")
      [] OTHER -> Raise("TypeError", "'" \o v.k \o "' object is not subscriptable")

RECURSIVE LStrip(_)
LStrip(f) == IF f # <<>> /\ Head(f) \in Whitespace THEN LStrip(Tail(f)) ELSE f

RECURSIVE RStrip(_)
RStrip(f) ==
    IF f # <<>> /\ f[Len(f)] \in Whitespace THEN RStrip(SubSeq(f, 1, Len(f) - 1)) ELSE f

StripNone(f) == f

(* str.strip() on the fragments of a str. *)
StripFrags(f) == RStrip(LStrip(f))

(* v.strip() *)
Strip(v) ==
    IF v.k = "str" THEN Ok(PStr(StripFrags(v.s)))
    ELSE Raise("AttributeError", "'" \o v.k \o "' object has no attribute 'strip'")

(***************************************************************************)
(* JSON texts, as the fragments of the text: one fragment for each         *)
(* bracket, quote, delimiter, digit and literal, and inside a string one   *)
(* for each escape.  Tokens(v) is the text json.dumps writes for v.        *)
(***************************************************************************)
DigitValue ==
    ("0" :> 0) @@ ("1" :> 1) @@ ("2" :> 2) @@ ("3" :> 3) @@ ("4" :> 4)
    @@ ("5" :> 5) @@ ("6" :> 6) @@ ("7" :> 7) @@ ("8" :> 8) @@ ("9" :> 9)

RECURSIVE Digits(_)
Digits(n) == IF n < 10 THEN <<ToString(n)>> ELSE Digits(n \div 10) \o <<ToString(n % 10)>>

RECURSIVE DigitsValue(_, _)
DigitsValue(ds, acc) ==
    IF ds = <<>> THEN acc ELSE DigitsValue(Tail(ds), 10 * acc + DigitValue[Head(ds)])

Escape(frag) ==
    CASE frag = "\"" -> "\\\""
      [] frag = "\\" -> "\\\\"
      [] frag = "\t" -> "\\t"
      [] frag = "\n" -> "\\n"
      [] frag = "\r" -> "\\r"
      [] frag = "\f" -> "\\f"
      [] OTHER -> frag

RECURSIVE EscapeAll(_)
EscapeAll(f) == IF f = <<>> THEN <<>> ELSE <<Escape(Head(f))>> \o EscapeAll(Tail(f))

RECURSIVE Tokens(_), ItemTokens(_), PairTokens(_, _)
Tokens(v) ==
    CASE v.k = "NoneType" -> <<"null">>
      [] v.k = "bool" -> <<IF v.n = 1 THEN "true" ELSE "false">>
      [] v.k = "int" -> Digits(v.n)
      [] v.k = "str" -> <<"\"">> \o EscapeAll(v.s) \o <<"\"">>
      [] v.k = "list" -> <<"[">> \o ItemTokens(v.a) \o <<"]">>
      [] v.k = "dict" -> <<"{">> \o PairTokens(v.o, KeysOf(v.o)) \o <<"}">>
ItemTokens(l) ==
    IF l = <<>> THEN <<>>
    ELSE Tokens(Head(l)) \o (IF Len(l) > 1 THEN <<", ">> ELSE <<>>) \o ItemTokens(Tail(l))
PairTokens(d, ks) ==
    IF ks = <<>> THEN <<>>
    ELSE <<"\"", Head(ks), "\"", ": ">> \o Tokens(d[Head(ks)])
         \o (IF Len(ks) > 1 THEN <<", ">> ELSE <<>>) \o PairTokens(d, Tail(ks))

Unescape(frag) ==
    CASE frag = "\\\"" -> "\""
      [] frag = "\\\\" -> "\\"
      [] frag = "\\t" -> "\t"
      [] frag = "\\n" -> "\n"
      [] frag = "\\r" -> "\r"
      [] frag = "\\f" -> "\f"
      [] OTHER -> frag

(* The JSONDecodeError json.loads raises at fragment i of text t (a text *)
(* of one line).                                                         *)
DecodeError(what, t, i) ==
    Bind(Len(Flat(SubSeq(t, 1, i - 1))), LAMBDA pos :
    [ok |-> FALSE, val |-> PNone, exc |-> "JSONDecodeError", next |-> i,
     msg |-> what \o ": line 1 column " \o ToString(pos + 1)
             \o " (char " \o ToString(pos) \o ")"])

Parsed(v, i) == [ok |-> TRUE, val |-> v, exc |-> "", next |-> i, msg |-> ""]

RECURSIVE DigitsEnd(_, _)
DigitsEnd(t, i) ==
    IF i <= Len(t) /\ t[i] \in DOMAIN DigitValue THEN DigitsEnd(t, i + 1) ELSE i

RECURSIVE ParseValue(_, _), ParseString(_, _, _, _), ParseItems(_, _, _), ParsePairs(_, _, _)
(* The value that starts at fragment i. *)
ParseValue(t, i) ==
    IF i > Len(t) THEN DecodeError("Expecting value", t, i) ELSE
    CASE t[i] = "null" -> Parsed(PNone, i + 1)
      [] t[i] = "true" -> Parsed(PBool(TRUE), i + 1)
      [] t[i] = "false" -> Parsed(PBool(FALSE), i + 1)
      [] t[i] \in DOMAIN DigitValue ->
           Bind(DigitsEnd(t, i), LAMBDA end :
           Parsed(PInt(DigitsValue(SubSeq(t, i, end - 1), 0)), end))
      [] t[i] = "\"" -> ParseString(t, i, i + 1, <<>>)
      [] t[i] = "[" ->
           IF i < Len(t) /\ t[i + 1] = "]" THEN Parsed(PList(<<>>), i + 2)
           ELSE ParseItems(t, i + 1, <<>>)
      [] t[i] = "{" ->
           IF i < Len(t) /\ t[i + 1] = "}" THEN Parsed(PDict(NoItems), i + 2)
           ELSE ParsePairs(t, i + 1, NoItems)
      [] OTHER -> DecodeError("Expecting value", t, i)
(* The string whose opening quote is fragment q, read up to fragment j. *)
ParseString(t, q, j, acc) ==
    IF j > Len(t) THEN DecodeError("Unterminated string starting at", t, q) ELSE
    IF t[j] = "\"" THEN Parsed(PStr(acc), j + 1) ELSE
    IF t[j] \in {"\t", "\n", "\r", "\f"}
    THEN DecodeError("Invalid control character at", t, j)
    ELSE ParseString(t, q, j + 1, Append(acc, Unescape(t[j])))
(* The items of a list from fragment i on, after the items acc. *)
ParseItems(t, i, acc) ==
    Bind(ParseValue(t, i), LAMBDA item :
    IF ~item.ok THEN item ELSE
    IF item.next > Len(t) THEN DecodeError("Expecting ',' delimiter", t, item.next) ELSE
    CASE t[item.next] = "]" -> Parsed(PList(Append(acc, item.val)), item.next + 1)
      [] t[item.next] \in {",", ", "} -> ParseItems(t, item.next + 1, Append(acc, item.val))
      [] OTHER -> DecodeError("Expecting ',' delimiter", t, item.next))
(* The pairs of an object from fragment i on, after the pairs acc. *)
ParsePairs(t, i, acc) ==
    IF i > Len(t) \/ t[i] # "\""
    THEN DecodeError("Expecting property name enclosed in double quotes", t, i) ELSE
    Bind(ParseString(t, i, i + 1, <<>>), LAMBDA key :
    IF ~key.ok THEN key ELSE
    IF key.next > Len(t) \/ t[key.next] \notin {":", ": "}
    THEN DecodeError("Expecting ':' delimiter", t, key.next) ELSE
    Bind(ParseValue(t, key.next + 1), LAMBDA item :
    IF ~item.ok THEN item ELSE
    IF item.next > Len(t) THEN DecodeError("Expecting ',' delimiter", t, item.next) ELSE
    Bind((Flat(key.val.s) :> item.val) @@ acc, LAMBDA pairs :
    CASE t[item.next] = "}" -> Parsed(PDict(pairs), item.next + 1)
      [] t[item.next] \in {",", ", "} -> ParsePairs(t, item.next + 1, pairs)
      [] OTHER -> DecodeError("Expecting ',' delimiter", t, item.next))))

(* json.loads(text) on the fragments of a str *)
JsonLoads(t) ==
    Bind(ParseValue(t, 1), LAMBDA top :
    IF ~top.ok THEN Raise(top.exc, top.msg) ELSE
    IF top.next <= Len(t)
    THEN Bind(DecodeError("Extra data", t, top.next), LAMBDA e : Raise(e.exc, e.msg))
    ELSE Ok(top.val))

(* json.loads(v) on any value *)
JsonLoadsValue(v) ==
    IF v.k = "str" THEN JsonLoads(v.s)
    ELSE Raise("TypeError",
               "the JSON object must be str, bytes or bytearray, not " \o v.k)

(***************************************************************************)
(* What clients and the upstream endpoint send                             *)
(***************************************************************************)
FoodFrags == {" ", "\t", "kale"}

Foods == UNION {[1..m -> FoodFrags] : m \in 0..MaxFoodLen}

TextRequestValues ==
    {PDict("food" :> PStr(f)) : f \in Foods}
    \cup {PDict(NoItems), PDict("food" :> PNone), PDict("food" :> PInt(5)),
          PDict("food" :> PList(<<PStr(<<"kale">>)>>)),
          PList(<<>>), PStr(<<"kale">>), PNone}

VALID_IMAGE_TYPES == {"image/jpeg", "image/png", "image/gif", "image/webp"}

ImageValues == {PStr(<<>>), PStr(<<"aGVsbG8=">>), PInt(5), PNone}

MediaTypeValues ==
    {PStr(<<m>>) : m \in VALID_IMAGE_TYPES \cup {"image/bmp", "image/PNG", "image/jpg"}}
    \cup {PStr(<<>>), PInt(5), PBool(TRUE), PList(<<PStr(<<"image/png">>)>>), PNone}

ImageRequestValues ==
    {PDict(("image" :> i) @@ ("media_type" :> m)) : i \in ImageValues, m \in MediaTypeValues}
    \cup {PDict("image" :> i) : i \in ImageValues}
    \cup {PDict("media_type" :> m) : m \in MediaTypeValues}

(* The verdicts the model writes into the text of its first content block. *)
ResultValues ==
    {PDict(("food" :> PStr(<<"apple">>)) @@ ("rating" :> PInt(9))),
     PDict("rating" :> PInt(11)), PDict(NoItems),
     PList(<<PInt(1)>>), PInt(5), PStr(<<"apple">>), PNone, PBool(TRUE)}

BlockTexts ==
    {PStr(Tokens(r)) : r \in ResultValues}
    \cup {PStr(<<>>), PStr(<<"Sorry,", " ", "no", " ", "rating.">>), PInt(5), PNone}

Envelopes ==
    {PDict("content" :> PList(<<PDict("text" :> t)>>)) : t \in BlockTexts}
    \cup {PDict("content" :> PList(<<PDict("text" :> PStr(Tokens(PDict("rating" :> PInt(11))))),
                                     PDict("text" :> PStr(<<"not json">>))>>)),
          PDict(NoItems),
          PDict("content" :> PList(<<>>)),
          PDict("content" :> PList(<<PDict(NoItems)>>)),
          PDict("content" :> PList(<<PStr(<<"x">>)>>)),
          PDict("content" :> PDict(NoItems)),
          PDict("content" :> PStr(<<"a">>)),
          PDict("content" :> PStr(<<>>)),
          PDict("content" :> PNone),
          PList(<<>>)}

ErrorBodies ==
    {PDict("error" :> PDict("message" :> PStr(<<"rate", " ", "limited">>))),
     PDict("error" :> PDict("message" :> PStr(<<>>))),
     PDict("error" :> PDict("message" :> PInt(5))),
     PDict("error" :> PDict("message" :> PNone)),
     PDict("error" :> PDict(NoItems)),
     PDict("error" :> PStr(<<"overloaded">>)),
     PDict("error" :> PNone),
     PDict(NoItems), PList(<<>>), PStr(<<"overloaded">>), PInt(5), PNone}

(* Bytes on the wire: the fragments of a text, or bytes that are no UTF-8. *)
Utf8(t) == [utf8 |-> TRUE, frags |-> t]

NotUtf8 == [utf8 |-> FALSE, frags |-> <<>>]

ByteLen(b) == IF b.utf8 THEN Len(Flat(b.frags)) ELSE 1

(* b.decode("utf-8") *)
Decode(b) ==
    IF b.utf8 THEN Ok(PStr(b.frags))
    ELSE Raise("UnicodeDecodeError",
               "'utf-8' codec can't decode byte 0xff in position 0: invalid start byte")

RequestBodies ==
    {Utf8(Tokens(v)) : v \in TextRequestValues \cup ImageRequestValues}
    \cup {Utf8(<<>>), Utf8(<<"not json">>), Utf8(<<"{", "\"", "food", "\"", ": ">>),
          NotUtf8}

MAX_BODY_SIZE == 10000000

NoHeader == [present |-> FALSE, frags |-> <<>>]

Header(t) == [present |-> TRUE, frags |-> t]

(* The Content-Length headers a client sends with body b: none, the length *)
(* of b, a length the body falls short of, one over the limit, no number.  *)
ContentLengths(b) ==
    {NoHeader} \cup
    {Header(t) : t \in {Digits(ByteLen(b)), <<"0">>, Digits(MAX_BODY_SIZE),
                        Digits(MAX_BODY_SIZE + 1), <<"abc">>}}

(* int(x) of the header's value, or of the default 0 *)
PyInt(h) ==
    IF ~h.present THEN Ok(PInt(0)) ELSE
    Bind(StripFrags(h.frags), LAMBDA ds :
    IF ds # <<>> /\ \A i \in 1..Len(ds) : ds[i] \in DOMAIN DigitValue
    THEN Ok(PInt(DigitsValue(ds, 0)))
    ELSE Raise("ValueError", "invalid literal for int() with base 10: '"
                                \o Flat(h.frags) \o "'"))

(* rfile.read(n): the first n bytes of the body; past its end, what the *)
(* client sent before it closed its side.                               *)
Read(b, n) ==
    CASE n >= ByteLen(b) -> b
      [] n = 0 -> Utf8(<<>>)

Paths == {"/", "/api/analyze", "/api/analyze-image", "/nope"}

UpstreamReplies ==
    {[kind |-> "transport", code |-> 0, body |-> Utf8(<<>>)]}
    \cup {[kind |-> "http", code |-> c, body |-> b] :
             c \in {429, 500},
             b \in {Utf8(Tokens(v)) : v \in ErrorBodies}
                   \cup {Utf8(<<>>), Utf8(<<"<html>502 Bad Gateway</html>">>), NotUtf8}}
    \cup {[kind |-> "ok", code |-> 200, body |-> b] :
             b \in {Utf8(Tokens(v)) : v \in Envelopes}
                   \cup {Utf8(<<>>), Utf8(<<"not json">>), NotUtf8}}

(***************************************************************************)
(* The server.  A handler runs without interruption up to the upstream     *)
(* call and again from the reply to its end; a Step is what one such run   *)
(* leaves: where the handler is, the events of the request in order, the   *)
(* responses written to the client and the payload sent upstream.          *)
(***************************************************************************)
MODEL == "claude-sonnet-4-20250514"

NoBody == [kind |-> "none", json |-> PNone, raw |-> ""]

RawBody(t) == [kind |-> "raw", json |-> PNone, raw |-> t]

JsonBody(v) == [kind |-> "json", json |-> v, raw |-> ""]

Response(status, headers, body) == [status |-> status, headers |-> headers, body |-> body]

(* send_cors_headers *)
CorsHeaders ==
    {<<"Access-Control-Allow-Origin", "*">>,
     <<"Access-Control-Allow-Methods", "POST, GET, OPTIONS">>,
     <<"Access-Control-Allow-Headers", "Content-Type">>}

(* _send_json(status, data): the body is the text json.dumps writes for data *)
SendJson(status, data) ==
    Response(status, {<<"Content-Type", "application/json">>} \cup CorsHeaders,
             JsonBody(data))

ErrorData(msg) == PDict("error" :> PStr(<<msg>>))

RejectNoReturn(ev, status, msg) ==
    [pc |-> "upstream", events |-> ev \o <<"response", "upstream_call">>,
     written |-> <<SendJson(status, ErrorData(msg))>>, payload |-> PNone]

(* A validator's failure: _send_json(status, {"error": msg}); return *)
Reject(ev, status, msg) ==
    [pc |-> "done", events |-> Append(ev, "response"),
     written |-> <<SendJson(status, ErrorData(msg))>>, payload |-> PNone]

CatchesOnlyJsonDecodeError(exc) == exc = "JSONDecodeError"

(* except Exception *)
Catches(exc) == TRUE

OnExceptionRetry(ev, wr, p, e) ==
    IF ev # <<>> /\ ev[Len(ev)] = "upstream_error"
       /\ Len(SelectSeq(ev, LAMBDA x : x = "upstream_call")) = 1
    THEN [pc |-> "upstream", events |-> Append(ev, "upstream_call"),
          written |-> wr, payload |-> p]
    ELSE [pc |-> "done", events |-> Append(ev, "response"),
          written |-> Append(wr, SendJson(500, ErrorData(e.msg))), payload |-> p]

(* The handlers' except clause: _send_json(500, {"error": str(e)}).  An *)
(* exception no clause catches ends the handler with nothing written.    *)
OnException(ev, wr, p, e) ==
    IF Catches(e.exc)
    THEN [pc |-> "done", events |-> Append(ev, "response"),
          written |-> Append(wr, SendJson(500, ErrorData(e.msg))), payload |-> p]
    ELSE [pc |-> "done", events |-> Append(ev, "uncaught"),
          written |-> wr, payload |-> p]

CallUpstream(ev, p) ==
    [pc |-> "upstream", events |-> Append(ev, "upstream_call"),
     written |-> <<>>, payload |-> p]

call_anthropic(food) ==
    PDict(("model" :> PStr(<<MODEL>>)) @@ ("max_tokens" :> PInt(500))
          @@ ("system" :> PStr(<<"SYSTEM_PROMPT">>))
          @@ ("messages" :> PList(<<
                PDict(("role" :> PStr(<<"user">>))
                      @@ ("content" :> PStr(<<"Analyse this food: ">> \o food.s)))>>)))

call_anthropic_image(image_base64, media_type) ==
    PDict(("model" :> PStr(<<MODEL>>)) @@ ("max_tokens" :> PInt(1000))
          @@ ("system" :> PStr(<<"IMAGE_SYSTEM_PROMPT">>))
          @@ ("messages" :> PList(<<
                PDict(("role" :> PStr(<<"user">>))
                      @@ ("content" :> PList(<<
                            PDict(("type" :> PStr(<<"image">>))
                                  @@ ("source" :> PDict(("type" :> PStr(<<"base64">>))
                                                        @@ ("media_type" :> media_type)
                                                        @@ ("data" :> image_base64)))),
                            PDict(("type" :> PStr(<<"text">>))
                                  @@ ("text" :> PStr(<<"IMAGE_QUESTION">>)))>>)))>>)))

(* json.loads(body.decode("utf-8")) *)
DecodeAndLoad(b) ==
    Bind(Decode(b), LAMBDA d : IF d.ok THEN JsonLoadsValue(d.val) ELSE d)

(* _handle_analyze_text, up to the upstream call *)
HandleAnalyzeText(r) ==
    Bind(PyInt(r.clen), LAMBDA content_length :
    IF ~content_length.ok THEN OnException(<<>>, <<>>, PNone, content_length) ELSE
    Bind(DecodeAndLoad(Read(r.body, content_length.val.n)), LAMBDA data :
    IF ~data.ok THEN OnException(<<"read_body">>, <<>>, PNone, data) ELSE
    Bind(DictGet(data.val, "food", PStr(<<>>)), LAMBDA got :
    IF ~got.ok THEN OnException(<<"read_body">>, <<>>, PNone, got) ELSE
    Bind(Strip(got.val), LAMBDA food :
    IF ~food.ok THEN OnException(<<"read_body">>, <<>>, PNone, food) ELSE
    IF ~Truthy(food.val)
    THEN Reject(<<"read_body">>, 400, "Please provide a food to analyse.")
    ELSE CallUpstream(<<"read_body">>, call_anthropic(food.val))))))

TooLargeOffByOne(n) == n - 1 > MAX_BODY_SIZE

(* content_length > MAX_BODY_SIZE *)
TooLarge(n) == n > MAX_BODY_SIZE

MissingImageOnly(image, media_type) == ~Truthy(image)

(* not image or not media_type *)
MissingField(image, media_type) == ~Truthy(image) \/ ~Truthy(media_type)

(* media_type not in VALID_IMAGE_TYPES: a set hashes the value it looks up *)
NotInValidTypes(media_type) ==
    IF media_type.k \in {"list", "dict"}
    THEN Raise("TypeError", "unhashable type: '" \o media_type.k \o "'")
    ELSE Ok(PBool(~(media_type.k = "str" /\ Flat(media_type.s) \in VALID_IMAGE_TYPES)))

(* _handle_analyze_image, up to the upstream call *)
HandleAnalyzeImage(r) ==
    Bind(PyInt(r.clen), LAMBDA content_length :
    IF ~content_length.ok THEN OnException(<<>>, <<>>, PNone, content_length) ELSE
    IF TooLarge(content_length.val.n)
    THEN Reject(<<>>, 413, "Image is too large. Please try a smaller photo.") ELSE
    Bind(DecodeAndLoad(Read(r.body, content_length.val.n)), LAMBDA data :
    IF ~data.ok THEN OnException(<<"read_body">>, <<>>, PNone, data) ELSE
    Bind(DictGet(data.val, "image", PStr(<<>>)), LAMBDA image :
    IF ~image.ok THEN OnException(<<"read_body">>, <<>>, PNone, image) ELSE
    Bind(DictGet(data.val, "media_type", PStr(<<>>)), LAMBDA media_type :
    IF MissingField(image.val, media_type.val)
    THEN Reject(<<"read_body">>, 400, "Please provide an image to analyse.") ELSE
    Bind(NotInValidTypes(media_type.val), LAMBDA unsupported :
    IF ~unsupported.ok THEN OnException(<<"read_body">>, <<>>, PNone, unsupported) ELSE
    IF Truthy(unsupported.val)
    THEN Reject(<<"read_body">>, 400,
                "Unsupported image type: " \o PyStr(media_type.val))
    ELSE CallUpstream(<<"read_body">>,
                      call_anthropic_image(image.val, media_type.val)))))))

(* do_POST *)
RoutePost(r) ==
    CASE r.path = "/api/analyze" -> HandleAnalyzeText(r)
      [] r.path = "/api/analyze-image" -> HandleAnalyzeImage(r)
      [] OTHER -> [pc |-> "done", events |-> <<"response">>,
                   written |-> <<Response(404, {}, RawBody("Not found"))>>,
                   payload |-> PNone]

(* _send_to_anthropic from the return of urlopen: the verdict, or the *)
(* exception that leaves the function.                                 *)
SendToAnthropic(rep) ==
    CASE rep.kind = "transport" ->
           Raise("URLError", "<urlopen error [Errno 111] Connection refused>")
      [] rep.kind = "ok" ->
           Bind(DecodeAndLoad(rep.body), LAMBDA data :
           IF ~data.ok THEN data ELSE
           Bind(DictGet(data.val, "content", PList(<<PDict(NoItems)>>)), LAMBDA content :
           IF ~content.ok THEN content ELSE
           Bind(Index0(content.val), LAMBDA first :
           IF ~first.ok THEN first ELSE
           Bind(DictGet(first.val, "text", PStr(<<>>)), LAMBDA text :
           IF ~text.ok THEN text ELSE JsonLoadsValue(text.val)))))
      [] rep.kind = "http" ->
           Bind(Decode(rep.body), LAMBDA body :
           IF ~body.ok THEN body ELSE
           Bind(JsonLoadsValue(body.val), LAMBDA err :
           IF ~err.ok THEN Raise("Exception", "API error: " \o ToString(rep.code)) ELSE
           Bind(DictGet(err.val, "error", PDict(NoItems)), LAMBDA error :
           IF ~error.ok THEN error ELSE
           Bind(DictGet(error.val, "message",
                        PStr(<<"API error: " \o ToString(rep.code)>>)), LAMBDA msg :
           IF ~msg.ok THEN msg ELSE Raise("Exception", PyStr(msg.val))))))

(* _handle_analyze_text from the return of call_anthropic *)
FinishAnalyzeText(ev, wr, p, rep) ==
    Bind(SendToAnthropic(rep), LAMBDA result :
    IF ~result.ok THEN OnException(Append(ev, "upstream_error"), wr, p, result) ELSE
    Bind(DictGet(result.val, "rating", PStr(<<"?">>)), LAMBDA rating :
    IF ~rating.ok THEN OnException(Append(ev, "upstream_ok"), wr, p, rating)
    ELSE [pc |-> "done", events |-> ev \o <<"upstream_ok", "response">>,
          written |-> Append(wr, SendJson(200, result.val)), payload |-> p]))

(* _handle_analyze_image from the return of call_anthropic_image *)
FinishAnalyzeImage(ev, wr, p, rep) ==
    Bind(SendToAnthropic(rep), LAMBDA result :
    IF ~result.ok THEN OnException(Append(ev, "upstream_error"), wr, p, result) ELSE
    Bind(DictGet(result.val, "food", PStr(<<"?">>)), LAMBDA food :
    IF ~food.ok THEN OnException(Append(ev, "upstream_ok"), wr, p, food) ELSE
    Bind(DictGet(result.val, "rating", PStr(<<"?">>)), LAMBDA rating :
    IF ~rating.ok THEN OnException(Append(ev, "upstream_ok"), wr, p, rating)
    ELSE [pc |-> "done", events |-> ev \o <<"upstream_ok", "response">>,
          written |-> Append(wr, SendJson(200, result.val)), payload |-> p])))

NoRequest == [method |-> "", path |-> "", clen |-> NoHeader, body |-> Utf8(<<>>),
              indexHtml |-> FALSE]

NoReply == [kind |-> "none", code |-> 0, body |-> Utf8(<<>>)]

Request(m, p, c, b, f) ==
    [method |-> m, path |-> p, clen |-> c, body |-> b, indexHtml |-> f]

Init ==
    /\ pc = "idle"
    /\ req = NoRequest
    /\ events = <<>>
    /\ written = <<>>
    /\ payload = PNone
    /\ reply = NoReply

do_OPTIONS ==
    /\ pc = "idle"
    /\ \E p \in Paths : req' = Request("OPTIONS", p, NoHeader, Utf8(<<>>), FALSE)
    /\ written' = <<Response(204, CorsHeaders, NoBody)>>
    /\ events' = <<"response">>
    /\ pc' = "done"
    /\ UNCHANGED <<payload, reply>>

(* do_GET: index.html beside the script is there (f) or not *)
do_GET ==
    /\ pc = "idle"
    /\ \E p \in Paths, f \in BOOLEAN :
         /\ req' = Request("GET", p, NoHeader, Utf8(<<>>), f)
         /\ written' =
              IF f THEN <<Response(200, {<<"Content-Type", "text/html; charset=utf-8">>}
                                        \cup CorsHeaders, RawBody("index.html"))>>
              ELSE <<Response(404, {}, RawBody("Not found"))>>
    /\ events' = <<"response">>
    /\ pc' = "done"
    /\ UNCHANGED <<payload, reply>>

do_POST ==
    /\ pc = "idle"
    /\ \E p \in Paths, b \in RequestBodies :
         \E c \in ContentLengths(b) :
            \E step \in {RoutePost(Request("POST", p, c, b, FALSE))} :
                /\ req' = Request("POST", p, c, b, FALSE)
                /\ pc' = step.pc
                /\ events' = step.events
                /\ written' = step.written
                /\ payload' = step.payload
    /\ UNCHANGED reply

(* urlopen returns or raises, and the handler runs to its end *)
UpstreamReturns ==
    /\ pc = "upstream"
    /\ \E rep \in UpstreamReplies :
         \E step \in {IF req.path = "/api/analyze"
                      THEN FinishAnalyzeText(events, written, payload, rep)
                      ELSE FinishAnalyzeImage(events, written, payload, rep)} :
             /\ reply' = rep
             /\ pc' = step.pc
             /\ events' = step.events
             /\ written' = step.written
             /\ payload' = step.payload
    /\ UNCHANGED req

(* serve_forever takes the next request *)
ServeNext ==
    /\ pc = "done"
    /\ pc' = "idle"
    /\ req' = NoRequest
    /\ events' = <<>>
    /\ written' = <<>>
    /\ payload' = PNone
    /\ reply' = NoReply

Next == do_OPTIONS \/ do_GET \/ do_POST \/ UpstreamReturns \/ ServeNext

Spec == Init /\ [][Next]_vars

(***************************************************************************)
(* What the properties speak of                                            *)
(***************************************************************************)
TextRoute == req.method = "POST" /\ req.path = "/api/analyze"

ImageRoute == req.method = "POST" /\ req.path = "/api/analyze-image"

ApiRoute == TextRoute \/ ImageRoute

Count(ev, e) == Len(SelectSeq(ev, LAMBDA x : x = e))

(* The Content-Length the request declares, when it declares a number. *)
Declared == PyInt(req.clen)

(* The JSON value of the request's body, as the declared length frames it. *)
RequestJson ==
    IF Declared.ok THEN DecodeAndLoad(Read(req.body, Declared.val.n))
    ELSE Raise("ValueError", "")

RequestObject == RequestJson.ok /\ RequestJson.val.k = "dict"

Field(key) == RequestJson.val.o[key]

Has(key) == key \in DOMAIN RequestJson.val.o

EmptyOrAbsent(key) == ~Has(key) \/ Field(key) = PStr(<<>>)

AllWhitespace(f) == \A i \in 1..Len(f) : f[i] \in {" ", "\t", "\n", "\r", "\f"}

(* resp is a JSON response whose body is the object {"error": msg}. *)
IsError(resp, status, msg) ==
    /\ resp.status = status
    /\ resp.body.kind = "json"
    /\ resp.body.json.k = "dict"
    /\ DOMAIN resp.body.json.o = {"error"}
    /\ resp.body.json.o["error"].k = "str"
    /\ Flat(resp.body.json.o["error"].s) = msg

ErrorOf(resp) == Flat(resp.body.json.o["error"].s)

(* The envelope of a 2xx reply, and the text of its first content block. *)
Envelope == DecodeAndLoad(reply.body)

HasBlocks ==
    /\ Envelope.ok /\ Envelope.val.k = "dict"
    /\ "content" \in DOMAIN Envelope.val.o
    /\ Envelope.val.o["content"].k = "list"
    /\ Envelope.val.o["content"].a # <<>>

NoBlocks ==
    /\ Envelope.ok /\ Envelope.val.k = "dict"
    /\ \/ "content" \notin DOMAIN Envelope.val.o
       \/ Envelope.val.o["content"] = PList(<<>>)

FirstBlock == Envelope.val.o["content"].a[1]

HasText ==
    /\ HasBlocks /\ FirstBlock.k = "dict"
    /\ "text" \in DOMAIN FirstBlock.o
    /\ FirstBlock.o["text"].k = "str"

Embedded == JsonLoads(FirstBlock.o["text"].s)

(* The body of a non-2xx reply as JSON, and whether it carries error.message. *)
ErrorReply == DecodeAndLoad(reply.body)

CarriesMessage ==
    /\ ErrorReply.ok /\ ErrorReply.val.k = "dict"
    /\ "error" \in DOMAIN ErrorReply.val.o
    /\ ErrorReply.val.o["error"].k = "dict"
    /\ "message" \in DOMAIN ErrorReply.val.o["error"].o

(***************************************************************************)
(* C1: a POST /api/analyze whose JSON body has food absent, empty or       *)
(* all-whitespace is answered 400 {"error": "Please provide a food to      *)
(* analyse."} and no upstream call is made during the request.             *)
(***************************************************************************)
C1_BlankFoodRejected ==
    (pc # "idle" /\ TextRoute /\ RequestObject
     /\ (~Has("food") \/ (Field("food").k = "str" /\ AllWhitespace(Field("food").s))))
    => /\ pc = "done"
       /\ Len(written) = 1
       /\ IsError(written[1], 400, "Please provide a food to analyse.")
       /\ Count(events, "upstream_call") = 0

C1_Witness ==
    /\ pc = "done" /\ TextRoute /\ RequestObject /\ Has("food")
    /\ Field("food").k = "str" /\ Len(Field("food").s) > 1
    /\ AllWhitespace(Field("food").s)
    /\ Len(written) = 1 /\ written[1].status = 400

(***************************************************************************)
(* C2: a POST /api/analyze-image that declares a Content-Length above      *)
(* 10,000,000 is answered 413 "Image is too large. Please try a smaller    *)
(* photo." before any read of the body: the response is the only event of  *)
(* the request, whatever the body holds.                                   *)
(***************************************************************************)
C2_OversizeRejectedUnread ==
    (pc # "idle" /\ ImageRoute /\ Declared.ok /\ Declared.val.n > 10000000)
    => /\ pc = "done"
       /\ Len(written) = 1
       /\ IsError(written[1], 413, "Image is too large. Please try a smaller photo.")
       /\ events = <<"response">>

C2_Witness ==
    /\ pc = "done" /\ ImageRoute /\ Declared.ok /\ Declared.val.n = 10000001
    /\ req.body.utf8 /\ req.body.frags # <<>>
    /\ Len(written) = 1 /\ written[1].status = 413

(***************************************************************************)
(* C3: on POST /api/analyze-image within the size limit the presence check *)
(* comes before the media-type check and the first failing check decides:  *)
(* with image or media_type empty or absent the answer is 400 "Please      *)
(* provide an image to analyse." whatever the other field holds; otherwise *)
(* a media_type outside the four allowed types is answered 400             *)
(* "Unsupported image type: " followed by the media_type; and no upstream  *)
(* call is made in either case.                                            *)
(***************************************************************************)
C3_PresenceBeforeType ==
    (pc # "idle" /\ ImageRoute /\ Declared.ok /\ Declared.val.n <= 10000000
     /\ RequestObject)
    => /\ (EmptyOrAbsent("image") \/ EmptyOrAbsent("media_type"))
          => /\ pc = "done"
             /\ Len(written) = 1
             /\ IsError(written[1], 400, "Please provide an image to analyse.")
             /\ Count(events, "upstream_call") = 0
       /\ (/\ ~EmptyOrAbsent("image") /\ Field("image").k = "str"
           /\ ~EmptyOrAbsent("media_type") /\ Field("media_type").k = "str"
           /\ Flat(Field("media_type").s)
                \notin {"image/jpeg", "image/png", "image/gif", "image/webp"})
          => /\ pc = "done"
             /\ Len(written) = 1
             /\ IsError(written[1], 400,
                        "Unsupported image type: " \o Flat(Field("media_type").s))
             /\ Count(events, "upstream_call") = 0

C3_Witness ==
    /\ pc = "done" /\ ImageRoute /\ Declared.ok /\ Declared.val.n <= 10000000
    /\ RequestObject
    /\ Has("image") /\ Field("image") = PStr(<<>>)
    /\ Has("media_type") /\ Field("media_type") = PStr(<<"image/bmp">>)
    /\ Len(written) = 1 /\ written[1].status = 400

(***************************************************************************)
(* C4: for a valid request on either API route and a 2xx reply whose first *)
(* content block's text is valid JSON of any shape, the route answers 200  *)
(* with a body equal to that JSON value.                                   *)
(***************************************************************************)
C4_VerdictPassedThrough ==
    (pc = "done" /\ ApiRoute /\ reply.kind = "ok" /\ HasText /\ Embedded.ok)
    => /\ Len(written) = 1
       /\ written[1].status = 200
       /\ written[1].body.kind = "json"
       /\ written[1].body.json = Embedded.val

(***************************************************************************)
(* C5: for a reply with a non-success status the route answers 500 with    *)
(* error equal to error.message of the reply's body when the body is JSON  *)
(* carrying that field, and "API error: <status code>" in every other case.*)
(***************************************************************************)
C5_UpstreamErrorMessage ==
    (pc = "done" /\ ApiRoute /\ reply.kind = "http")
    => /\ Len(written) = 1
       /\ IsError(written[1], 500,
                  IF CarriesMessage
                  THEN PyStr(ErrorReply.val.o["error"].o["message"])
                  ELSE "API error: " \o ToString(reply.code))

(***************************************************************************)
(* C6: for a 2xx reply whose envelope has no content blocks or whose first *)
(* content block's text is not valid JSON the route answers 500 with       *)
(* {"error": msg}, msg a non-empty string; and no handler of an API route  *)
(* ends without a response written.                                        *)
(***************************************************************************)
C6_UndecodableReplyIs500 ==
    /\ (pc = "done" /\ ApiRoute) => written # <<>>
    /\ (pc = "done" /\ ApiRoute /\ reply.kind = "ok"
        /\ (NoBlocks \/ (HasText /\ ~Embedded.ok)))
       => /\ Len(written) = 1
          /\ IsError(written[1], 500, ErrorOf(written[1]))
          /\ ErrorOf(written[1]) # ""

C6_Witness ==
    /\ pc = "done" /\ ApiRoute /\ reply.kind = "ok"
    /\ Envelope.ok /\ Envelope.val = PDict("content" :> PList(<<>>))
    /\ Len(written) = 1 /\ written[1].status = 500

(***************************************************************************)
(* C7: every response the server writes, on every route and for every      *)
(* outcome, carries the three CORS headers.                                *)
(***************************************************************************)
C7_CorsOnEveryResponse ==
    \A i \in 1..Len(written) :
        {<<"Access-Control-Allow-Origin", "*">>,
         <<"Access-Control-Allow-Methods", "POST, GET, OPTIONS">>,
         <<"Access-Control-Allow-Headers", "Content-Type">>} \subseteq written[i].headers

(***************************************************************************)
(* C8: a POST to an API route ends with exactly one response written, one  *)
(* JSON object: the verdict with status 200, or {"error": <string>} with   *)
(* status 400, 413 or 500; nothing is written before the handler ends and  *)
(* nothing follows a response.                                             *)
(***************************************************************************)
C8_ExactlyOneJsonResponse ==
    ApiRoute
    => /\ pc = "upstream" => written = <<>>
       /\ \A i \in 1..Len(events) : events[i] = "response" => i = Len(events)
       /\ pc = "done"
          => /\ Len(written) = 1
             /\ Count(events, "response") = 1
             /\ \/ /\ written[1].status = 200
                   /\ written[1].body.kind = "json"
                   /\ written[1].body.json.k = "dict"
                   /\ reply.kind = "ok" /\ HasText /\ Embedded.ok
                   /\ written[1].body.json = Embedded.val
                \/ /\ written[1].status \in {400, 413, 500}
                   /\ IsError(written[1], written[1].status, ErrorOf(written[1]))

C8_Witness ==
    /\ pc = "done" /\ ApiRoute /\ reply.kind = "ok"
    /\ Len(written) = 1 /\ written[1].status = 200
    /\ events = <<"read_body", "upstream_call", "upstream_ok", "response">>

(***************************************************************************)
(* C9: a request to an API route whose body is malformed (no JSON, no JSON *)
(* object, a required field of the wrong type) or lacks a required field   *)
(* is answered 400; 500 comes only from a failure of the upstream call.    *)
(***************************************************************************)
RequiredFields == IF TextRoute THEN {"food"} ELSE {"image", "media_type"}

MalformedRequest ==
    \/ ~RequestObject
    \/ \E key \in RequiredFields : ~Has(key) \/ Field(key).k # "str"

C9_MalformedIs400 ==
    (pc = "done" /\ ApiRoute /\ Declared.ok
     /\ (ImageRoute => Declared.val.n <= 10000000))
    => /\ MalformedRequest => (Len(written) = 1 /\ written[1].status = 400)
       /\ (\E i \in 1..Len(written) : written[i].status = 500)
          => Count(events, "upstream_error") > 0

(***************************************************************************)
(* C10: no retries: one request makes at most one upstream call, and once  *)
(* that call has failed the next event of the request is the 500 response: *)
(* no second call comes in between or afterwards.                          *)
(***************************************************************************)
C10_NoRetry ==
    /\ Count(events, "upstream_call") <= 1
    /\ \A i \in 1..Len(events) :
         events[i] = "upstream_error"
         => /\ pc = "done"
            /\ Len(events) = i + 1
            /\ events[i + 1] = "response"
            /\ Len(written) = 1
            /\ written[1].status = 500

C10_Witness ==
    /\ pc = "done" /\ ApiRoute /\ reply.kind = "transport"
    /\ events = <<"read_body", "upstream_call", "upstream_error", "response">>
    /\ Len(written) = 1 /\ written[1].status = 500

====
